---------------------------- MODULE Spec2Model ----------------------------
(***************************************************************************)
(* Calendar summary (src/main.py): one run of main().                      *)
(*                                                                         *)
(* Time.  An instant is a number of seconds; day 0 is a Monday, so the     *)
(* weekday of calendar day d is d % 7 (Mon=0..Sun=6) and the calendar day  *)
(* of a wall-clock value w is w \div Day.  An aware datetime is the record *)
(* [utc, off]: the absolute instant and the UTC offset of the tzinfo       *)
(* attached to it.  Its wall clock (what strftime, replace and +timedelta  *)
(* work on) is utc + off; comparison, equality and hashing of aware        *)
(* datetimes go by utc.                                                    *)
(*                                                                         *)
(* A time zone is [name, lmt, off1, trans, off2]: offset off1 before the   *)
(* instant trans and off2 from it on, and lmt the offset pytz attaches     *)
(* when the zone object itself is passed as tzinfo= (no localize).         *)
(***************************************************************************)
EXTENDS Integers, Sequences, FiniteSets, TLC

VARIABLES
    pc,         \* position in main()
    cfg,        \* config.yaml and --mode, as loaded (lines 283-290)
    env,        \* the world: the clock, what each URL answers, what delivery does
    window,     \* (start, end, title) of daterange_window (line 292)
    idx,        \* index of the calendar the feed loop is at (line 295)
    parsed,     \* evs as parse_ics returned it (line 301)
    evs,        \* evs after the within_range filter (line 302)
    merged,     \* events as the feed loop built it (lines 294-305)
    events,     \* events as dedupe_and_sort returned it (line 307)
    grouped,    \* group_by_day's mapping, as its (day, items) pairs in order
    html,       \* whether the report is rendered (line 311)
    stderr,     \* messages printed to stderr, in order
    stdout,     \* messages printed to stdout, in order
    written,    \* output files written (dry run)
    attempted,  \* delivery functions called, in order
    returned,   \* delivery functions that returned without raising
    posted      \* channels a message actually went out on

vars == <<pc, cfg, env, window, idx, parsed, evs, merged, events, grouped,
          html, stderr, stdout, written, attempted, returned, posted>>

---------------------------------------------------------------------------
(* Units *)

Day == 86400

Hour == 3600

EndOfDay == 86399

DateOf(wall) == wall \div Day

Weekday(d) == d % 7

---------------------------------------------------------------------------
(* Time zones and aware datetimes (pytz) *)

UtcOffset(tz, utc) == IF utc < tz.trans THEN tz.off1 ELSE tz.off2

Wall(dt) == dt.utc + dt.off

\* dt.astimezone(tz): the same instant, the zone's offset at that instant
AsTimezone(dt, tz) == [utc |-> dt.utc, off |-> UtcOffset(tz, dt.utc)]

\* tz.localize(naive), is_dst=False: the offsets under which the wall clock
\* exists; the later instant (standard time) when it exists twice; the
\* offset before the transition when it falls in a gap.
Localize(tz, wall) ==
    LET cands == {o \in {tz.off1, tz.off2} : UtcOffset(tz, wall - o) = o}
        pick  == IF cands = {} THEN tz.off1
                 ELSE CHOOSE o \in cands : \A p \in cands : o <= p
    IN  [utc |-> wall - pick, off |-> pick]

\* dt + timedelta(seconds): wall-clock arithmetic, the tzinfo is kept
PlusDelta(dt, secs) == [utc |-> dt.utc + secs, off |-> dt.off]

\* datetime(y, m, d, H, M, S, tzinfo=tz): the zone object itself as tzinfo
WithZoneObject(tz, wall) == [utc |-> wall - tz.lmt, off |-> tz.lmt]

\* datetime.now(tz)
NowIn(tz, utc) == [utc |-> utc, off |-> UtcOffset(tz, utc)]

---------------------------------------------------------------------------
(* daterange_window (lines 131-147) *)

\* DaterangeWindow as it would be if weekly mode took the Monday of the
\* current week
DaterangeWindowThisWeek(mode, tz, nowUtc) ==
    LET now == NowIn(tz, nowUtc)
    IN  IF mode = "daily"
        THEN LET target == PlusDelta(now, Day)
                 d      == DateOf(Wall(target))
             IN  [start |-> WithZoneObject(tz, d * Day),
                  end   |-> WithZoneObject(tz, d * Day + EndOfDay),
                  title |-> [kind |-> "daily", from |-> d, to |-> d]]
        ELSE LET weekday == Weekday(DateOf(Wall(now)))
                 shifted == PlusDelta(now, (0 - weekday) * Day)
                 monday  == [utc |-> DateOf(Wall(shifted)) * Day - now.off,
                             off |-> now.off]
                 sunday  == PlusDelta(monday, 6 * Day)
                 end     == [utc |-> DateOf(Wall(sunday)) * Day + EndOfDay - now.off,
                             off |-> now.off]
             IN  [start |-> monday,
                  end   |-> end,
                  title |-> [kind |-> "weekly", from |-> DateOf(Wall(monday)),
                             to |-> DateOf(Wall(end))]]

\* mode is "daily" or "weekly": argparse's choices (line 284) admit no other
DaterangeWindow(mode, tz, nowUtc) ==
    LET now == NowIn(tz, nowUtc)
    IN  IF mode = "daily"
        THEN LET target == PlusDelta(now, Day)
                 d      == DateOf(Wall(target))
             IN  [start |-> WithZoneObject(tz, d * Day),
                  end   |-> WithZoneObject(tz, d * Day + EndOfDay),
                  title |-> [kind |-> "daily", from |-> d, to |-> d]]
        ELSE LET weekday == Weekday(DateOf(Wall(now)))
                 days_to_next_monday == (7 - weekday) % 7
                 shifted == PlusDelta(now, days_to_next_monday * Day)
                 monday  == [utc |-> DateOf(Wall(shifted)) * Day - now.off,
                             off |-> now.off]
                 sunday  == PlusDelta(monday, 6 * Day)
                 end     == [utc |-> DateOf(Wall(sunday)) * Day + EndOfDay - now.off,
                             off |-> now.off]
             IN  [start |-> monday,
                  end   |-> end,
                  title |-> [kind |-> "weekly", from |-> DateOf(Wall(monday)),
                             to |-> DateOf(Wall(end))]]

---------------------------------------------------------------------------
(* parse_ics (lines 161-224)                                               *)
(*                                                                         *)
(* A response is [status, comps]: status "ok" or the way the fetch or the  *)
(* parse failed; comps the components the recurrence expansion returned.   *)
(* A component is [name, summary, location, dtstart, dtend]; a temporal    *)
(* value is [kind, val] with kind "none" (absent), "date" (val a calendar  *)
(* day), "naive" (val a wall clock) or "aware" (val an instant).           *)

Placeholder == "(Bez nazvu)"

\* safe_str(v) or the default: an absent value and an empty one both give ""
TitleOf(summary) == IF summary = "" THEN Placeholder ELSE summary

\* DefaultEnd as it would be with one default, an hour, for every event
DefaultEndAlwaysHour(start_dt, allday) == PlusDelta(start_dt, Hour)

\* DefaultEnd as it would be if the default end were the start itself
DefaultEndIsStart(start_dt, allday) == start_dt

\* lines 193 and 208: the end of an event that gives none
DefaultEnd(start_dt, allday) ==
    PlusDelta(start_dt, IF allday THEN Day ELSE Hour)

\* a zoned datetime as read from the feed: its instant (astimezone replaces
\* whatever offset it came with)
Zoned(utc) == [utc |-> utc, off |-> 0]

\* lines 181-222: one VEVENT component to one event
NormalizeOccurrence(c, tz, calendar_name) ==
    LET dtstart == c.dtstart
        dtend   == c.dtend
        allday  == dtstart.kind = "date"
        \* lines 189-193
        day_start == Localize(tz, dtstart.val * Day)
        day_end   == IF dtend.kind = "date"
                     THEN Localize(tz, dtend.val * Day)
                     ELSE DefaultEnd(day_start, TRUE)
        \* lines 197-208
        timed_start == IF dtstart.kind = "aware"
                       THEN Zoned(dtstart.val)
                       ELSE Localize(tz, dtstart.val)
        timed_end   == CASE dtend.kind = "aware" -> Zoned(dtend.val)
                         [] dtend.kind = "naive" -> Localize(tz, dtend.val)
                         [] dtend.kind = "date"  -> Localize(tz, dtend.val * Day)
                         [] OTHER -> DefaultEnd(timed_start, FALSE)
    IN  [title         |-> TitleOf(c.summary),
         start         |-> IF allday THEN day_start
                           ELSE AsTimezone(timed_start, tz),
         end           |-> IF allday THEN day_end
                           ELSE AsTimezone(timed_end, tz),
         is_all_day    |-> allday,
         location      |-> c.location,
         calendar_name |-> calendar_name]

\* the components the loop of line 177 does not skip
VEvents(comps) == SelectSeq(comps, LAMBDA c : c.name = "VEVENT")

\* requests.get / raise_for_status / Calendar.from_ical raise (lines 163-165),
\* or a VEVENT has no DTSTART (line 183: None has no .dt)
ParseRaises(resp) ==
    \/ resp.status # "ok"
    \/ \E i \in 1..Len(resp.comps) :
          resp.comps[i].name = "VEVENT" /\ resp.comps[i].dtstart.kind = "none"

ParseIcs(resp, tz, calendar_name) ==
    LET vs == VEvents(resp.comps)
    IN  [i \in 1..Len(vs) |-> NormalizeOccurrence(vs[i], tz, calendar_name)]

---------------------------------------------------------------------------
(* within_range (lines 227-228) *)

\* WithinRange as it would be with the comparisons not strict
WithinRangeClosed(ev, start, end) ==
    ~(ev.end.utc < start.utc \/ ev.start.utc > end.utc)

WithinRange(ev, start, end) ==
    ~(ev.end.utc <= start.utc \/ ev.start.utc >= end.utc)

---------------------------------------------------------------------------
(* dedupe_and_sort (lines 230-240) *)

\* the titles of the model in Python's string order: "(" < "L" < "S"
TitleOrder == <<Placeholder, "Lunch", "Standup">>

TitleRank(t) == CHOOSE i \in 1..Len(TitleOrder) : TitleOrder[i] = t

\* DedupeKey as it would be without the calendar name
DedupeKeyAcrossCalendars(ev) == <<ev.title, ev.start.utc, ev.end.utc>>

DedupeKey(ev) == <<ev.title, ev.start.utc, ev.end.utc, ev.calendar_name>>

\* key=lambda e: (e["start"], e["title"]), compared as tuples
SortKeyLess(a, b) ==
    \/ a.start.utc < b.start.utc
    \/ a.start.utc = b.start.utc /\ TitleRank(a.title) < TitleRank(b.title)

\* lines 231-238: the first event of every key, in input order
RECURSIVE Dedupe(_, _)
Dedupe(s, keyset) ==
    IF s = <<>> THEN <<>>
    ELSE IF DedupeKey(Head(s)) \in keyset
         THEN Dedupe(Tail(s), keyset)
         ELSE <<Head(s)>> \o Dedupe(Tail(s), keyset \cup {DedupeKey(Head(s))})

\* InsertSorted as an unstable sort would do it: x goes before its equals
RECURSIVE InsertSortedBeforeEquals(_, _)
InsertSortedBeforeEquals(sorted, x) ==
    IF sorted = <<>> THEN <<x>>
    ELSE IF ~SortKeyLess(Head(sorted), x)
         THEN <<x>> \o sorted
         ELSE <<Head(sorted)>> \o InsertSortedBeforeEquals(Tail(sorted), x)

\* list.sort is stable: x goes after every element that is not greater
RECURSIVE InsertSorted(_, _)
InsertSorted(sorted, x) ==
    IF sorted = <<>> THEN <<x>>
    ELSE IF SortKeyLess(x, Head(sorted))
         THEN <<x>> \o sorted
         ELSE <<Head(sorted)>> \o InsertSorted(Tail(sorted), x)

RECURSIVE SortStable(_)
SortStable(s) ==
    IF s = <<>> THEN <<>>
    ELSE InsertSorted(SortStable(SubSeq(s, 1, Len(s) - 1)), s[Len(s)])

DedupeAndSort(s) == SortStable(Dedupe(s, {}))

---------------------------------------------------------------------------
(* group_by_day (lines 242-255) *)

\* strftime("%A %d.%m.%Y"): the calendar day of the wall clock (the weekday
\* name follows from the day)
DayLabel(dt) == DateOf(Wall(dt))

\* strftime("%H:%M"): the minute of the day of the wall clock
HourMinute(dt) == (Wall(dt) % Day) \div 60

GroupItem(ev) ==
    [title         |-> ev.title,
     start_str     |-> HourMinute(ev.start),
     end_str       |-> HourMinute(ev.end),
     is_all_day    |-> ev.is_all_day,
     location      |-> ev.location,
     calendar_name |-> ev.calendar_name]

\* AddToGroup as it would be if every change of day opened a bucket
AddToGroupLastBucketOnly(g, label, item) ==
    IF g # <<>> /\ g[Len(g)].day = label
    THEN [i \in 1..Len(g) |->
            IF i = Len(g)
            THEN [day |-> label, items |-> Append(g[i].items, item)]
            ELSE g[i]]
    ELSE Append(g, [day |-> label, items |-> <<item>>])

\* grouped[day_label].append(item): a new label opens a bucket at the end of
\* the mapping, a known one appends to its bucket where it stands
AddToGroup(g, label, item) ==
    IF \E i \in 1..Len(g) : g[i].day = label
    THEN [i \in 1..Len(g) |->
            IF g[i].day = label
            THEN [day |-> label, items |-> Append(g[i].items, item)]
            ELSE g[i]]
    ELSE Append(g, [day |-> label, items |-> <<item>>])

RECURSIVE GroupInto(_, _)
GroupInto(g, s) ==
    IF s = <<>> THEN g
    ELSE GroupInto(AddToGroup(g, DayLabel(Head(s).start), GroupItem(Head(s))),
                   Tail(s))

GroupByDay(s) == GroupInto(<<>>, s)

---------------------------------------------------------------------------
(* main (lines 282-329) *)

Calendar == cfg.calendars[idx]

Response == env.responses[idx]

\* line 292
ComputeWindow ==
    /\ pc = "start"
    /\ window' = DaterangeWindow(cfg.mode, cfg.time_zone, env.now)
    /\ idx' = 1
    /\ pc' = "feeds"
    /\ UNCHANGED <<cfg, env, parsed, evs, merged, events, grouped, html,
                   stderr, stdout, written, attempted, returned, posted>>

\* lines 297-299: a calendar without ics_url is skipped
SkipCalendar ==
    /\ pc = "feeds"
    /\ idx <= Len(cfg.calendars)
    /\ ~Calendar.has_url
    /\ stderr' = Append(stderr, [msg |-> "Skipping", name |-> Calendar.name])
    /\ idx' = idx + 1
    /\ UNCHANGED <<pc, cfg, env, window, parsed, evs, merged, events, grouped,
                   html, stdout, written, attempted, returned, posted>>

\* line 301, parse_ics returns
FetchAndParse ==
    /\ pc = "feeds"
    /\ idx <= Len(cfg.calendars)
    /\ Calendar.has_url
    /\ ~ParseRaises(Response)
    /\ parsed' = ParseIcs(Response, cfg.time_zone, Calendar.name)
    /\ pc' = "filter"
    /\ UNCHANGED <<cfg, env, window, idx, evs, merged, events, grouped, html,
                   stderr, stdout, written, attempted, returned, posted>>

\* FeedFailed as it would be if the handler left the loop after warning
FeedFailedLeavesLoop ==
    /\ pc = "feeds"
    /\ idx <= Len(cfg.calendars)
    /\ cfg.calendars[idx].has_url
    /\ ParseRaises(env.responses[idx])
    /\ stderr' = Append(stderr, [msg |-> "[WARN] Calendar failed",
                                 name |-> cfg.calendars[idx].name])
    /\ idx' = Len(cfg.calendars) + 1
    /\ UNCHANGED <<pc, cfg, env, window, parsed, evs, merged, events, grouped,
                   html, stdout, written, attempted, returned, posted>>

\* lines 301, 304-305: parse_ics raises, the handler warns and the loop goes on
FeedFailed ==
    /\ pc = "feeds"
    /\ idx <= Len(cfg.calendars)
    /\ Calendar.has_url
    /\ ParseRaises(Response)
    /\ stderr' = Append(stderr, [msg |-> "[WARN] Calendar failed",
                                 name |-> Calendar.name])
    /\ idx' = idx + 1
    /\ UNCHANGED <<pc, cfg, env, window, parsed, evs, merged, events, grouped,
                   html, stdout, written, attempted, returned, posted>>

\* line 302
FilterEvents ==
    /\ pc = "filter"
    /\ evs' = SelectSeq(parsed,
                        LAMBDA e : WithinRange(e, window.start, window.end))
    /\ pc' = "extend"
    /\ UNCHANGED <<cfg, env, window, idx, parsed, merged, events, grouped, html,
                   stderr, stdout, written, attempted, returned, posted>>

\* line 303
ExtendEvents ==
    /\ pc = "extend"
    /\ merged' = merged \o evs
    /\ idx' = idx + 1
    /\ pc' = "feeds"
    /\ UNCHANGED <<cfg, env, window, parsed, evs, events, grouped, html,
                   stderr, stdout, written, attempted, returned, posted>>

\* line 307, once the loop is through
DedupeStep ==
    /\ pc = "feeds"
    /\ idx > Len(cfg.calendars)
    /\ events' = DedupeAndSort(merged)
    /\ pc' = "group"
    /\ UNCHANGED <<cfg, env, window, idx, parsed, evs, merged, grouped, html,
                   stderr, stdout, written, attempted, returned, posted>>

\* line 308
GroupStep ==
    /\ pc = "group"
    /\ grouped' = GroupByDay(events)
    /\ pc' = "render"
    /\ UNCHANGED <<cfg, env, window, idx, parsed, evs, merged, events, html,
                   stderr, stdout, written, attempted, returned, posted>>

\* Render as it would be if dry_run were not looked at before delivery
RenderThenAlwaysSend ==
    /\ pc = "render"
    /\ html' = TRUE
    /\ pc' = "send_email"
    /\ UNCHANGED <<cfg, env, window, idx, parsed, evs, merged, events, grouped,
                   stderr, stdout, written, attempted, returned, posted>>

\* lines 310-318
Render ==
    /\ pc = "render"
    /\ html' = TRUE
    /\ pc' = IF cfg.dry_run THEN "dry_run" ELSE "send_email"
    /\ UNCHANGED <<cfg, env, window, idx, parsed, evs, merged, events, grouped,
                   stderr, stdout, written, attempted, returned, posted>>

\* lines 318-323
DryRunWrite ==
    /\ pc = "dry_run"
    /\ written' = written \cup {<<"output", cfg.mode>>}
    /\ stdout' = Append(stdout, "[DRY RUN] Wrote")
    /\ pc' = "done"
    /\ UNCHANGED <<cfg, env, window, idx, parsed, evs, merged, events, grouped,
                   html, stderr, attempted, returned, posted>>

\* line 326 and send_email (lines 257-280): an exception leaves main
SendEmail ==
    /\ pc = "send_email"
    /\ attempted' = Append(attempted, "send_email")
    /\ IF env.email = "ok"
       THEN /\ posted' = posted \cup {"email"}
            /\ returned' = returned \cup {"send_email"}
            /\ pc' = "send_slack_webhook"
       ELSE /\ pc' = "raised"
            /\ UNCHANGED <<posted, returned>>
    /\ UNCHANGED <<cfg, env, window, idx, parsed, evs, merged, events, grouped,
                   html, stderr, stdout, written>>

\* line 327 and send_slack_webhook (lines 95-108)
SendSlackWebhook ==
    /\ pc = "send_slack_webhook"
    /\ attempted' = Append(attempted, "send_slack_webhook")
    /\ CASE cfg.slack = "disabled" ->
               /\ returned' = returned \cup {"send_slack_webhook"}
               /\ pc' = "send_slack_bot"
               /\ UNCHANGED <<posted, stderr>>
         [] cfg.slack = "no_url" ->
               /\ stderr' = Append(stderr, [msg |-> "[WARN] webhook_url missing",
                                            name |-> "slack"])
               /\ returned' = returned \cup {"send_slack_webhook"}
               /\ pc' = "send_slack_bot"
               /\ UNCHANGED posted
         [] OTHER ->
               IF env.webhook = "ok"
               THEN /\ posted' = posted \cup {"slack"}
                    /\ returned' = returned \cup {"send_slack_webhook"}
                    /\ pc' = "send_slack_bot"
                    /\ UNCHANGED stderr
               ELSE /\ pc' = "raised"
                    /\ UNCHANGED <<posted, returned, stderr>>
    /\ UNCHANGED <<cfg, env, window, idx, parsed, evs, merged, events, grouped,
                   html, stdout, written>>

\* lines 328-329 and send_slack_bot (lines 110-123)
SendSlackBot ==
    /\ pc = "send_slack_bot"
    /\ attempted' = Append(attempted, "send_slack_bot")
    /\ CASE cfg.slack_bot = "disabled" ->
               /\ returned' = returned \cup {"send_slack_bot"}
               /\ stdout' = Append(stdout, "Notifications sent.")
               /\ pc' = "done"
               /\ UNCHANGED <<posted, stderr>>
         [] cfg.slack_bot = "no_token" ->
               /\ stderr' = Append(stderr, [msg |-> "[WARN] token/channel_id missing",
                                            name |-> "slack_bot"])
               /\ returned' = returned \cup {"send_slack_bot"}
               /\ stdout' = Append(stdout, "Notifications sent.")
               /\ pc' = "done"
               /\ UNCHANGED posted
         [] OTHER ->
               IF env.bot = "ok"
               THEN /\ posted' = posted \cup {"slack_bot"}
                    /\ returned' = returned \cup {"send_slack_bot"}
                    /\ stdout' = Append(stdout, "Notifications sent.")
                    /\ pc' = "done"
                    /\ UNCHANGED stderr
               ELSE /\ pc' = "raised"
                    /\ UNCHANGED <<posted, returned, stderr, stdout>>
    /\ UNCHANGED <<cfg, env, window, idx, parsed, evs, merged, events, grouped,
                   html, written>>

Next ==
    \/ ComputeWindow
    \/ SkipCalendar
    \/ FetchAndParse
    \/ FeedFailed
    \/ FilterEvents
    \/ ExtendEvents
    \/ DedupeStep
    \/ GroupStep
    \/ Render
    \/ DryRunWrite
    \/ SendEmail
    \/ SendSlackWebhook
    \/ SendSlackBot

---------------------------------------------------------------------------
(* The runs considered: configurations and worlds *)

MaxFeeds == 2

MaxOccs == 2

\* UTC: no transition, and the zone object carries offset 0
ZoneUtc == [name |-> "UTC", lmt |-> 0, off1 |-> 0, trans |-> 0, off2 |-> 0]

\* UTC+1 all year, as Africa/Lagos; the zone object carries LMT +0:14
ZoneFixed ==
    [name |-> "Africa/Lagos", lmt |-> 840, off1 |-> Hour, trans |-> 0,
     off2 |-> Hour]

\* summer time ends at 01:00 UTC of day 9 (03:00 local becomes 02:00), as
\* Europe/Prague in October; the zone object carries LMT +0:58
ZoneDst ==
    [name |-> "Europe/Prague", lmt |-> 3480, off1 |-> 2 * Hour,
     trans |-> 9 * Day + Hour, off2 |-> Hour]

\* summer time ends at 00:01 local of day 9, which becomes 23:01 of day 8, as
\* America/St_Johns did from 1987 to 2010 (UTC-2:30 to UTC-3:30); the zone
\* object carries LMT -3:31
ZoneMidnight ==
    [name |-> "America/St_Johns", lmt |-> 0 - 12660, off1 |-> 0 - 9000,
     trans |-> 9 * Day + 60 + 9000, off2 |-> 0 - 12600]

\* summer time begins at 01:00 UTC of day 9 (02:00 local becomes 03:00), as
\* Europe/Berlin in March; the zone object carries LMT +0:53
ZoneSpring ==
    [name |-> "Europe/Berlin", lmt |-> 3180, off1 |-> Hour,
     trans |-> 9 * Day + Hour, off2 |-> 2 * Hour]

Zones == {ZoneUtc, ZoneFixed, ZoneDst, ZoneSpring, ZoneMidnight}

\* Tuesday of the second week, 12:00 UTC
BaseNow == 8 * Day + 12 * Hour

CalendarNames == <<"A", "B", "C", "D">>

None == [kind |-> "none", val |-> 0]

DateValue(d) == [kind |-> "date", val |-> d]

Naive(wall) == [kind |-> "naive", val |-> wall]

Aware(utc) == [kind |-> "aware", val |-> utc]

VEvent(summary, location, dtstart, dtend) ==
    [name |-> "VEVENT", summary |-> summary, location |-> location,
     dtstart |-> dtstart, dtend |-> dtend]

VTodo == [name |-> "VTODO", summary |-> "Todo", location |-> "",
          dtstart |-> None, dtend |-> None]

NoUrlFeed == [has_url |-> FALSE, resp |-> [status |-> "ok", comps |-> <<>>]]

FailingFeed(status) ==
    [has_url |-> TRUE, resp |-> [status |-> status, comps |-> <<>>]]

OkFeed(comps) == [has_url |-> TRUE, resp |-> [status |-> "ok", comps |-> comps]]

FailureStatuses == {"network_error", "http_error", "parse_error"}

DryRun ==
    [dry_run |-> TRUE, slack |-> "enabled", slack_bot |-> "enabled",
     email |-> "ok", webhook |-> "ok", bot |-> "ok"]

AllSent ==
    [dry_run |-> FALSE, slack |-> "enabled", slack_bot |-> "enabled",
     email |-> "ok", webhook |-> "ok", bot |-> "ok"]

Deliveries ==
    [dry_run : BOOLEAN,
     slack : {"disabled", "no_url", "enabled"},
     slack_bot : {"disabled", "no_token", "enabled"},
     email : {"ok", "error"}, webhook : {"ok", "error"}, bot : {"ok", "error"}]

Scenario(mode, tz, now, feeds, d) ==
    [cfg |-> [mode      |-> mode,
              time_zone |-> tz,
              calendars |-> [i \in 1..Len(feeds) |->
                                [name    |-> CalendarNames[i],
                                 has_url |-> feeds[i].has_url]],
              dry_run   |-> d.dry_run,
              slack     |-> d.slack,
              slack_bot |-> d.slack_bot],
     env |-> [now       |-> now,
              responses |-> [i \in 1..Len(feeds) |-> feeds[i].resp],
              email     |-> d.email,
              webhook   |-> d.webhook,
              bot       |-> d.bot]]

\* sequences over S of length at most n
SeqsUpTo(S, n) == UNION {[1..k -> S] : k \in 0..n}

\* an event of one hour at 09:00 UTC of day 9, inside tomorrow's window
Standup ==
    VEvent("Standup", "Room 1", Aware(9 * Day + 9 * Hour),
           Aware(9 * Day + 10 * Hour))

\* the same hour a week later, outside tomorrow's window
LaterStandup ==
    VEvent("Standup", "Room 1", Aware(16 * Day + 9 * Hour),
           Aware(16 * Day + 10 * Hour))

Lunch == VEvent("Lunch", "", Aware(9 * Day + 12 * Hour), None)

NoDtstart == VEvent("Broken", "", None, None)

\* one calendar of each kind, in both delivery modes: every step of main runs
BaseScenarios ==
    {Scenario("daily", ZoneUtc, BaseNow,
              <<NoUrlFeed, FailingFeed("network_error"), OkFeed(<<Standup>>)>>, d) :
        d \in {DryRun, AllSent}}

InitFrom(scenarios) ==
    /\ \E sc \in scenarios : cfg = sc.cfg /\ env = sc.env
    /\ pc = "start"
    /\ window = [start |-> [utc |-> 0, off |-> 0], end |-> [utc |-> 0, off |-> 0],
                 title |-> [kind |-> "", from |-> 0, to |-> 0]]
    /\ idx = 0
    /\ parsed = <<>>
    /\ evs = <<>>
    /\ merged = <<>>
    /\ events = <<>>
    /\ grouped = <<>>
    /\ html = FALSE
    /\ stderr = <<>>
    /\ stdout = <<>>
    /\ written = {}
    /\ attempted = <<>>
    /\ returned = {}
    /\ posted = {}

---------------------------------------------------------------------------
(* Spec: the feed loop and the delivery stage, over every list of feeds    *)
(* and every outcome of the three delivery calls                           *)

MainFeeds ==
    {NoUrlFeed} \cup {FailingFeed(st) : st \in FailureStatuses}
    \cup {OkFeed(c) : c \in {<<>>, <<Standup>>, <<Lunch, LaterStandup>>,
                             <<VTodo, Standup>>, <<Lunch, NoDtstart>>}}

MainScenarios ==
    {Scenario("daily", ZoneUtc, BaseNow, f, d) :
        f \in SeqsUpTo(MainFeeds, MaxFeeds), d \in {DryRun, AllSent}}
    \cup {Scenario("daily", ZoneUtc, BaseNow, <<OkFeed(<<Standup>>)>>, d) :
        d \in Deliveries}

Init == InitFrom(MainScenarios \cup BaseScenarios)

Spec == Init /\ [][Next]_vars

\* the feed loop is through: merged is the list handed to dedupe_and_sort
LoopDone == pc # "start" /\ pc # "filter" /\ pc # "extend"
            /\ idx > Len(cfg.calendars)

FeedFails(i) == cfg.calendars[i].has_url /\ ParseRaises(env.responses[i])

FeedParses(i) == cfg.calendars[i].has_url /\ ~ParseRaises(env.responses[i])

NamesOf(indices) ==
    LET pick(i) == i \in indices
    IN  [k \in 1..Len(SelectSeq([i \in 1..Len(cfg.calendars) |-> i], pick)) |->
            cfg.calendars[SelectSeq([i \in 1..Len(cfg.calendars) |-> i], pick)[k]].name]

FeedWarnings ==
    LET isWarn(m) == m.msg = "[WARN] Calendar failed"
        warns == SelectSeq(stderr, isWarn)
    IN  [k \in 1..Len(warns) |-> warns[k].name]

\* C1: once the feed loop is through, whatever the feeds that failed and
\* wherever they stand in the list: no event of a failing feed is in the
\* merged list, the warnings name exactly the failing feeds, in order, and
\* every event of every other feed that passes within_range is in the list
\* handed to dedupe_and_sort.
C1_FailingFeedsAreIsolated ==
    LoopDone =>
        /\ \A i \in 1..Len(cfg.calendars) :
              FeedFails(i) =>
                  \A k \in 1..Len(merged) :
                      merged[k].calendar_name # cfg.calendars[i].name
        /\ FeedWarnings = NamesOf({i \in 1..Len(cfg.calendars) : FeedFails(i)})
        /\ \A i \in 1..Len(cfg.calendars) :
              FeedParses(i) =>
                  LET all == ParseIcs(env.responses[i], cfg.time_zone,
                                      cfg.calendars[i].name)
                  IN  \A n \in 1..Len(all) :
                          WithinRange(all[n], window.start, window.end) =>
                              \E k \in 1..Len(merged) : merged[k] = all[n]

\* a failing feed stands before a feed whose events are in the merged list
C1_Witness ==
    /\ LoopDone
    /\ \E i, j \in 1..Len(cfg.calendars) :
          /\ i < j
          /\ FeedFails(i)
          /\ \E k \in 1..Len(merged) :
                merged[k].calendar_name = cfg.calendars[j].name

DeliveryFunctions == {"send_email", "send_slack_webhook", "send_slack_bot"}

Called == {attempted[k] : k \in 1..Len(attempted)}

\* C2: every run that reaches the delivery stage calls each of send_email,
\* send_slack_webhook and send_slack_bot, whether or not another of them
\* raised.
C2_EveryChannelAttempted ==
    (pc \in {"done", "raised"} /\ ~cfg.dry_run) => Called = DeliveryFunctions

\* C10: a dry run writes the report and ends without calling any delivery
\* function; otherwise no delivery function is called before every feed is
\* processed and the report rendered, and "Notifications sent." is printed
\* only when all three delivery calls returned without error.
C10_DryRunAndDeliveryOrder ==
    /\ cfg.dry_run =>
          /\ attempted = <<>>
          /\ pc # "raised"
          /\ pc = "done" => written = {<<"output", cfg.mode>>}
    /\ ~cfg.dry_run => written = {}
    /\ attempted # <<>> => idx > Len(cfg.calendars) /\ html
    /\ (\E k \in 1..Len(stdout) : stdout[k] = "Notifications sent.") =>
          /\ returned = DeliveryFunctions
          /\ attempted = <<"send_email", "send_slack_webhook", "send_slack_bot">>

\* a dry run has ended with the report written
C10_Witness ==
    /\ cfg.dry_run
    /\ pc = "done"
    /\ written = {<<"output", cfg.mode>>}
    /\ html

---------------------------------------------------------------------------
(* SpecWindow: daterange_window at every weekday and time of day, in every *)
(* zone and both modes                                                     *)

\* 00:00:00, 12:34:56 and 23:59:59 UTC of the days Monday 7 to Sunday 13
Nows == {d * Day + t : d \in 7..13, t \in {0, 12 * Hour + 2096, EndOfDay}}

WindowScenarios ==
    {Scenario(m, tz, now, <<OkFeed(<<Standup>>)>>, DryRun) :
        m \in {"daily", "weekly"}, tz \in Zones, now \in Nows}

InitWindow == InitFrom(WindowScenarios \cup BaseScenarios)

SpecWindow == InitWindow /\ [][Next]_vars

Today == DateOf(Wall(NowIn(cfg.time_zone, env.now)))

\* C7: in weekly mode the start is a Monday at 00:00:00, (7 - weekday) mod 7
\* days after today's date (today on a Monday, the next Monday otherwise,
\* never a past one), and the end is the Sunday six days later at 23:59:59.
C7_WeeklyWindowIsNextMonday ==
    (pc # "start" /\ cfg.mode = "weekly") =>
        LET startDay == DateOf(Wall(window.start))
            endDay   == DateOf(Wall(window.end))
        IN  /\ Weekday(startDay) = 0
            /\ Wall(window.start) = startDay * Day
            /\ startDay = Today + ((7 - Weekday(Today)) % 7)
            /\ Weekday(Today) = 0 => startDay = Today
            /\ Weekday(Today) # 0 => startDay > Today /\ startDay <= Today + 6
            /\ endDay = startDay + 6
            /\ Weekday(endDay) = 6
            /\ Wall(window.end) = endDay * Day + EndOfDay

\* weekly mode on a Wednesday: the window starts five days ahead
C7_Witness ==
    /\ pc # "start"
    /\ cfg.mode = "weekly"
    /\ Weekday(Today) = 2
    /\ DateOf(Wall(window.start)) = Today + 5

---------------------------------------------------------------------------
(* SpecFilter: within_range on every interval whose ends lie before, on,   *)
(* inside or after the ends of the window                                  *)

\* an hour before the window, its start, an hour into it, its end, an hour
\* after it
BoundaryPoints(w) ==
    {w.start.utc - Hour, w.start.utc, w.start.utc + Hour, w.end.utc,
     w.end.utc + Hour}

FilterScenarios ==
    UNION {
        {Scenario(m, tz, BaseNow,
                  <<OkFeed(<<VEvent("Standup", "", Aware(s), Aware(e))>>)>>, d) :
            s \in BoundaryPoints(DaterangeWindow(m, tz, BaseNow)),
            e \in BoundaryPoints(DaterangeWindow(m, tz, BaseNow)),
            d \in {DryRun, AllSent}} :
        m \in {"daily", "weekly"}, tz \in {ZoneUtc, ZoneFixed}}

InitFilter == InitFrom(FilterScenarios \cup BaseScenarios)

SpecFilter == InitFilter /\ [][Next]_vars

\* C3: the filter keeps exactly the events with end > window start and
\* start < window end, whatever the interval, zero-length and inverted ones
\* included: an event with start = end = window end is dropped, one with
\* start = end = window start is dropped, and one with
\* start < window end <= end (and end > window start) is kept.
C3_WithinRangeIsStrictOverlap ==
    pc = "extend" =>
        /\ evs = SelectSeq(parsed,
                           LAMBDA e : /\ e.end.utc > window.start.utc
                                      /\ e.start.utc < window.end.utc)
        /\ \A k \in 1..Len(parsed) :
              LET e == parsed[k]
                  kept == \E n \in 1..Len(evs) : evs[n] = e
              IN  /\ (e.start.utc = window.end.utc /\ e.end.utc = window.end.utc)
                        => ~kept
                  /\ (e.start.utc = window.start.utc
                      /\ e.end.utc = window.start.utc) => ~kept
                  /\ (e.start.utc < window.end.utc
                      /\ window.end.utc <= e.end.utc
                      /\ e.end.utc > window.start.utc) => kept

\* an event that starts inside the window and ends just on its end is kept
C3_Witness ==
    /\ pc = "extend"
    /\ \E k \in 1..Len(parsed) :
          /\ parsed[k].start.utc < window.end.utc
          /\ parsed[k].start.utc > window.start.utc
          /\ parsed[k].end.utc = window.end.utc
          /\ evs = <<parsed[k]>>

---------------------------------------------------------------------------
(* SpecParse: parse_ics on every form of DTSTART and DTEND, in every zone  *)

\* no DTSTART; a date; floating values, of which 00:00:30 of day 9 exists
\* twice in ZoneMidnight, and 02:30 of day 9 twice in ZoneDst and not at all
\* in ZoneSpring; zoned values before and after the transitions
Starts ==
    {None, DateValue(9), Naive(9 * Day + 30), Naive(9 * Day + 9000),
     Naive(9 * Day + 10 * Hour), Aware(9 * Day + 1800), Aware(9 * Day + 12 * Hour)}

\* no DTEND; dates before, on and after the start's; floating and zoned
\* values before and after the starts
Ends ==
    {None, DateValue(8), DateValue(9), DateValue(10), Naive(9 * Day + 9 * Hour),
     Naive(9 * Day + 11 * Hour), Aware(9 * Day + 11 * Hour),
     Aware(8 * Day + 12 * Hour)}

ParseScenarios ==
    {Scenario("daily", tz, BaseNow, <<OkFeed(<<VEvent("", "", st, en)>>)>>, d) :
        tz \in Zones, st \in Starts, en \in Ends, d \in {DryRun, AllSent}}

InitParse == InitFrom(ParseScenarios \cup BaseScenarios)

SpecParse == InitParse /\ [][Next]_vars

\* the VEVENT components parse_ics has just normalized into parsed
Raw == VEvents(env.responses[idx].comps)

\* C8 as claimed: every event parse_ics produces has end >= start, a DTEND
\* earlier than DTSTART included.
C8_EndNeverBeforeStart ==
    pc = "filter" =>
        \A k \in 1..Len(parsed) : parsed[k].end.utc >= parsed[k].start.utc

\* the end is defaulted: no DTEND, or a DTEND that is not a date on a
\* date-only DTSTART
EndDefaulted(c) ==
    \/ c.dtend.kind = "none"
    \/ c.dtstart.kind = "date" /\ c.dtend.kind # "date"

\* C8 as amended: an event whose end is defaulted has end > start; a DTEND
\* that is used is taken as it is, so that with DTSTART and DTEND both zoned
\* datetimes the event has end >= start exactly when DTEND is not earlier
\* than DTSTART, and an earlier DTEND gives an inverted event.
C8_EndAfterStartUnlessGivenEarlier ==
    pc = "filter" =>
        /\ Len(parsed) = Len(Raw)
        /\ \A k \in 1..Len(parsed) :
              /\ EndDefaulted(Raw[k]) => parsed[k].end.utc > parsed[k].start.utc
              /\ (Raw[k].dtstart.kind = "aware" /\ Raw[k].dtend.kind = "aware") =>
                    /\ parsed[k].start.utc = Raw[k].dtstart.val
                    /\ parsed[k].end.utc = Raw[k].dtend.val
                    /\ parsed[k].end.utc >= parsed[k].start.utc
                          <=> Raw[k].dtend.val >= Raw[k].dtstart.val

\* a date-only start with a datetime DTEND, which is ignored: the event ends
\* a day after it starts
C8_Witness ==
    /\ pc = "filter"
    /\ \E k \in 1..Len(parsed) :
          /\ Raw[k].dtstart.kind = "date"
          /\ Raw[k].dtend.kind = "aware"
          /\ Raw[k].dtend.val < parsed[k].start.utc
          /\ parsed[k].end.utc = parsed[k].start.utc + Day

\* C9: with no end value, the event lasts exactly one day and is all-day
\* when the start is date-only, and lasts exactly one hour and is not
\* all-day when the start is a datetime, floating or zoned; is_all_day is
\* true exactly when the start is date-only.
C9_DefaultDurations ==
    pc = "filter" =>
        /\ Len(parsed) = Len(Raw)
        /\ \A k \in 1..Len(parsed) :
              /\ parsed[k].is_all_day <=> Raw[k].dtstart.kind = "date"
              /\ Raw[k].dtend.kind = "none" =>
                    parsed[k].end.utc - parsed[k].start.utc =
                        IF Raw[k].dtstart.kind = "date" THEN Day ELSE Hour

\* a zoned start half an hour before the end of summer time, no end: the
\* event lasts an hour though both wall clocks read 02:30
C9_Witness ==
    /\ pc = "filter"
    /\ \E k \in 1..Len(parsed) :
          /\ Raw[k].dtstart.kind = "aware"
          /\ Raw[k].dtend.kind = "none"
          /\ ~parsed[k].is_all_day
          /\ parsed[k].start.off # parsed[k].end.off
          /\ parsed[k].end.utc - parsed[k].start.utc = Hour

---------------------------------------------------------------------------
(* SpecSort: dedupe_and_sort and group_by_day on the events of two feeds,  *)
(* with equal keys, equal sort keys and starts on both sides of midnight   *)
(* and of the zones' transitions                                           *)

\* 23:00 UTC of day 8: day 8 in UTC, day 9 in ZoneDst
EarlyStart == 8 * Day + 23 * Hour

\* 02:30:30 UTC of day 9: 00:00:30 of day 9 in ZoneMidnight, summer time
FirstStart == 9 * Day + 9030

\* 03:00 UTC of day 9: 23:30 of day 8 in ZoneMidnight, standard time
SecondStart == 9 * Day + 3 * Hour

\* 04:00 UTC of day 9: 00:30 of day 9 in ZoneMidnight, standard time
ThirdStart == 9 * Day + 4 * Hour

SortEvents ==
    {VEvent("Standup", "Room 1", Aware(FirstStart), Aware(9 * Day + 20 * Hour)),
     VEvent("Standup", "Room 2", Aware(FirstStart), Aware(9 * Day + 20 * Hour)),
     VEvent("Standup", "Room 1", Aware(FirstStart), Aware(9 * Day + 22 * Hour)),
     VEvent("Lunch", "", Aware(FirstStart), Aware(9 * Day + 20 * Hour)),
     VEvent("Standup", "Room 1", Aware(SecondStart), Aware(9 * Day + 20 * Hour)),
     VEvent("", "", Aware(ThirdStart), Aware(9 * Day + 20 * Hour)),
     VEvent("Standup", "Room 1", Aware(EarlyStart), Aware(9 * Day + 20 * Hour))}

SortScenarios ==
    {Scenario("daily", tz, BaseNow, <<OkFeed(a), OkFeed(b)>>, d) :
        tz \in {ZoneUtc, ZoneDst, ZoneMidnight},
        a \in SeqsUpTo(SortEvents, MaxOccs),
        b \in SeqsUpTo({VEvent("Standup", "Room 1", Aware(FirstStart),
                               Aware(9 * Day + 20 * Hour)),
                        VEvent("Standup", "Room 1", Aware(SecondStart),
                               Aware(9 * Day + 20 * Hour))}, 1),
        d \in {DryRun, AllSent}}

InitSort == InitFrom(SortScenarios \cup BaseScenarios)

SpecSort == InitSort /\ [][Next]_vars

\* dedupe_and_sort has returned
Deduped == pc \notin {"start", "feeds", "filter", "extend"}

\* group_by_day has returned
Grouped == Deduped /\ pc # "group"

SortedByStartTitle(s) ==
    \A i, j \in 1..Len(s) :
        i < j =>
            \/ s[i].start.utc < s[j].start.utc
            \/ /\ s[i].start.utc = s[j].start.utc
               /\ TitleRank(s[i].title) <= TitleRank(s[j].title)

\* C4: the output of dedupe_and_sort is in non-decreasing order of
\* (start, title), and dedupe_and_sort of that output is the output itself,
\* events that tie on (start, title) keeping their order.
C4_SortedAndIdempotent ==
    Deduped =>
        /\ SortedByStartTitle(events)
        /\ DedupeAndSort(events) = events

\* the output holds two events that tie on (start, title) and differ in
\* end or calendar_name, and a duplicate was dropped
C4_Witness ==
    /\ Deduped
    /\ Len(events) < Len(merged)
    /\ \E i, j \in 1..Len(events) :
          /\ i < j
          /\ events[i].start.utc = events[j].start.utc
          /\ events[i].title = events[j].title
          /\ events[i].end.utc # events[j].end.utc

\* the places of merged whose four fields no earlier place has
SameFourFields(a, b) ==
    /\ a.title = b.title
    /\ a.start.utc = b.start.utc
    /\ a.end.utc = b.end.utc
    /\ a.calendar_name = b.calendar_name

FirstOfKey ==
    {i \in 1..Len(merged) :
        \A h \in 1..(i - 1) : ~SameFourFields(merged[h], merged[i])}

\* C5: dedupe_and_sort drops an event exactly when an earlier event of its
\* input has the same (title, start, end, calendar_name); so in daily mode
\* two feeds' events with the same title, start and end give two entries,
\* one per calendar_name, under one day label, and events equal in all four
\* fields give one.
C5_IdentityIsFourFields ==
    /\ Deduped =>
          /\ Len(events) = Cardinality(FirstOfKey)
          /\ {events[k] : k \in 1..Len(events)} = {merged[i] : i \in FirstOfKey}
          /\ \A i \in 1..Len(merged) :
                Cardinality({k \in 1..Len(events) :
                                SameFourFields(events[k], merged[i])}) = 1
    /\ (Grouped /\ cfg.mode = "daily") =>
          \A i, j \in 1..Len(merged) :
              (/\ merged[i].calendar_name # merged[j].calendar_name
               /\ merged[i].title = merged[j].title
               /\ merged[i].start.utc = merged[j].start.utc
               /\ merged[i].end.utc = merged[j].end.utc) =>
                  \E b \in 1..Len(grouped) :
                      /\ grouped[b].day = DayLabel(merged[i].start)
                      /\ \E m, n \in 1..Len(grouped[b].items) :
                            /\ m # n
                            /\ grouped[b].items[m].title = merged[i].title
                            /\ grouped[b].items[n].title = merged[i].title
                            /\ grouped[b].items[m].calendar_name =
                                   merged[i].calendar_name
                            /\ grouped[b].items[n].calendar_name =
                                   merged[j].calendar_name

\* feeds A and B both list the same Standup, and A lists it twice: the
\* grouped output has one entry for A and one for B
C5_Witness ==
    /\ Grouped
    /\ cfg.mode = "daily"
    /\ Len(merged) = 3
    /\ Len(events) = 2
    /\ events[1].title = "Standup" /\ events[2].title = "Standup"
    /\ events[1].start.utc = events[2].start.utc
    /\ events[1].end.utc = events[2].end.utc
    /\ events[1].calendar_name = "A" /\ events[2].calendar_name = "B"
    /\ Len(grouped) = 1
    /\ Len(grouped[1].items) = 2

RECURSIVE ConcatItems(_)
ConcatItems(g) ==
    IF g = <<>> THEN <<>> ELSE Head(g).items \o ConcatItems(Tail(g))

ItemsOf(s) == [i \in 1..Len(s) |-> GroupItem(s[i])]

\* C6 as claimed: the buckets of group_by_day, concatenated in mapping
\* order, are the sorted sequence itself, for every sequence dedupe_and_sort
\* produces.
C6_ConcatenationIsInput ==
    Grouped => ConcatItems(grouped) = ItemsOf(events)

\* events of one day label stand next to each other
SameDayAdjacent(s) ==
    \A i, j, k \in 1..Len(s) :
        (i < j /\ j < k /\ DayLabel(s[i].start) = DayLabel(s[k].start)) =>
            DayLabel(s[j].start) = DayLabel(s[i].start)

\* the subsequence of s with day label d
OfDay(s, d) == SelectSeq(s, LAMBDA e : DayLabel(e.start) = d)

\* C6 as amended: the buckets stand in order of first occurrence, each
\* holds the events of its day in input order, and no event is dropped or
\* duplicated; concatenated they are the sorted sequence itself whenever the
\* events of one day label stand next to each other in it, as they do when
\* the zone's calendar date never steps back.
C6_ConcatenationIsInputWhenDaysAdjacent ==
    Grouped =>
        /\ \A b \in 1..Len(grouped) :
              grouped[b].items = ItemsOf(OfDay(events, grouped[b].day))
        /\ \A b, c \in 1..Len(grouped) :
              b < c =>
                  /\ grouped[b].day # grouped[c].day
                  /\ \E i \in 1..Len(events) :
                        /\ DayLabel(events[i].start) = grouped[b].day
                        /\ \A h \in 1..i :
                              DayLabel(events[h].start) # grouped[c].day
        /\ Len(ConcatItems(grouped)) = Len(events)
        /\ SameDayAdjacent(events) => ConcatItems(grouped) = ItemsOf(events)
        /\ cfg.time_zone # ZoneMidnight => SameDayAdjacent(events)

\* three events on two days of a zone whose date never steps back, the
\* buckets concatenated being the input
C6_Witness ==
    /\ Grouped
    /\ cfg.time_zone = ZoneUtc
    /\ Len(events) = 3
    /\ Len(grouped) = 2
    /\ Len(grouped[2].items) = 2
    /\ ConcatItems(grouped) = ItemsOf(events)

============================================================================
